---------------------------- MODULE Spec2Model ----------------------------
(***************************************************************************)
(* Seekable byte streams of packages/stream: SliceStream (borrowed slice), *)
(* MemoryStream (owned Vec<u8>) and FileStream (a file behind a BufReader  *)
(* or a BufWriter that share one Arc<File>, hence one OS file offset).     *)
(*                                                                         *)
(* A stream is a record; every method is an operator from the record and   *)
(* the call's arguments to a call result [st, status, ret, got]: the       *)
(* stream after the call, "ok" / "panic", the returned count and the bytes *)
(* copied into the caller's buffer.  Sequences are 1-based, so the byte at *)
(* stream offset i is element i + 1.                                       *)
(***************************************************************************)
EXTENDS Integers, Sequences, FiniteSets, TLC

VARIABLES backend, slice, mem, fs, last, pc, data, out

vars == <<backend, slice, mem, fs, last, pc, data, out>>

----------------------------------------------------------------------------
(* Bounds of the model *)

\* longest content of a file, a Vec or a slice that exists before construction
MaxInit == 2
\* largest seek target
MaxPos == 3
\* longest byte string handed to one write call
MaxWrite == 2
\* largest destination buffer handed to one read call
MaxRead == 3
\* no write is started that would end beyond this offset
MaxLen == 4
\* capacity of BufReader / BufWriter (std's DEFAULT_BUF_SIZE, scaled down)
BufCap == 2
\* longest data of the write_read tests and of the fuzz targets
MaxData == 4

\* size of the buffer read_to_end hands to read (std's PROBE_SIZE, scaled down)
Probe == 2

Byte == {0, 1}

Min(a, b) == IF a < b THEN a ELSE b
Max(a, b) == IF a > b THEN a ELSE b

SeqsUpTo(n) == UNION {[1..k -> Byte] : k \in 0..n}

Take(s, n) == SubSeq(s, 1, Min(n, Len(s)))
Drop(s, n) == SubSeq(s, n + 1, Len(s))
Zeros(n) == [i \in 1..n |-> 0]

\* the result of one call
Result(st, status, ret, got) ==
    [st |-> st, status |-> status, ret |-> ret, got |-> got]

----------------------------------------------------------------------------
(* SliceStream: slice.rs *)

SliceStream_new(buffer) == [buffer |-> buffer, position |-> 0]

SliceStream_seek(s, to) ==
    Result([s EXCEPT !.position = to], "ok", to, <<>>)

SliceStream_position(s) == s.position

SliceStream_len(s) == Len(s.buffer)

\* SliceStream_read reporting the size of the destination, not the bytes copied
SliceStream_read_full_count(s, n) ==
    IF s.position >= Len(s.buffer)
    THEN Result(s, "ok", 0, <<>>)
    ELSE LET source_position == Min(s.position + n, Len(s.buffer))
             len == source_position - s.position
         IN  Result([s EXCEPT !.position = s.position + len], "ok", n,
                    SubSeq(s.buffer, s.position + 1, source_position))

SliceStream_read(s, n) ==
    IF s.position >= Len(s.buffer)
    THEN Result(s, "ok", 0, <<>>)
    ELSE LET source_position == Min(s.position + n, Len(s.buffer))
             len == source_position - s.position
         IN  Result([s EXCEPT !.position = s.position + len], "ok", len,
                    SubSeq(s.buffer, s.position + 1, source_position))

----------------------------------------------------------------------------
(* MemoryStream: memory.rs *)

MemoryStream_new == [buffer |-> <<>>, position |-> 0]

MemoryStream_from(buffer) == [buffer |-> buffer, position |-> 0]

MemoryStream_seek(m, to) ==
    Result([m EXCEPT !.position = to], "ok", to, <<>>)

MemoryStream_position(m) == m.position

MemoryStream_len(m) == Len(m.buffer)

MemoryStream_read(m, n) ==
    IF m.position >= Len(m.buffer)
    THEN Result(m, "ok", 0, <<>>)
    ELSE LET source_position == Min(m.position + n, Len(m.buffer))
             len == source_position - m.position
         IN  Result([m EXCEPT !.position = m.position + len], "ok", len,
                    SubSeq(m.buffer, m.position + 1, source_position))

\* `self.buffer.len() - self.position` is a usize subtraction.  With
\* position > len it panics when overflow checks are on; when they are off it
\* wraps to a huge value, no byte is appended, and the slice index
\* `self.buffer[self.position..]` panics.  Either build panics, with the
\* stream as it was.
\* MemoryStream_write that appends room for all the bytes, whatever lies
\* between the position and the end
MemoryStream_write_appends(m, bytes) ==
    IF m.position > Len(m.buffer)
    THEN Result(m, "panic", 0, <<>>)
    ELSE LET extended == m.buffer \o Zeros(Len(bytes))
             copied == [i \in 1..Len(extended) |->
                          IF i > m.position /\ i <= m.position + Len(bytes)
                          THEN bytes[i - m.position]
                          ELSE extended[i]]
         IN  Result([buffer |-> copied, position |-> m.position + Len(bytes)],
                    "ok", Len(bytes), <<>>)

MemoryStream_write(m, bytes) ==
    IF m.position > Len(m.buffer)
    THEN Result(m, "panic", 0, <<>>)
    ELSE LET bytes_to_end == Len(m.buffer) - m.position
             extended == IF Len(bytes) > bytes_to_end
                         THEN m.buffer \o Zeros(Len(bytes) - bytes_to_end)
                         ELSE m.buffer
             copied == [i \in 1..Len(extended) |->
                          IF i > m.position /\ i <= m.position + Len(bytes)
                          THEN bytes[i - m.position]
                          ELSE extended[i]]
         IN  Result([buffer |-> copied, position |-> m.position + Len(bytes)],
                    "ok", Len(bytes), <<>>)

MemoryStream_flush(m) == Result(m, "ok", 0, <<>>)

----------------------------------------------------------------------------
(* The file behind a FileStream.  `file` is the content on disk, `cursor`  *)
(* the offset of the one open file description that the Arc<File> clones   *)
(* held by the stream, its reader and its writer all share.                *)

\* <&File as Read>::read: up to n bytes from the cursor, which advances
File_read(f, n) ==
    LET got == SubSeq(f.file, f.cursor + 1, Min(f.cursor + n, Len(f.file)))
    IN  [st |-> [f EXCEPT !.cursor = f.cursor + Len(got)], got |-> got]

\* <&File as Write>::write: the bytes land at the cursor, a gap between the
\* end of the file and the cursor reads as zeros; a write of nothing does
\* not touch the file
File_write(f, bytes) ==
    IF bytes = <<>>
    THEN f
    ELSE [f EXCEPT
            !.file = [i \in 1..Max(Len(f.file), f.cursor + Len(bytes)) |->
                        IF i > f.cursor /\ i <= f.cursor + Len(bytes)
                        THEN bytes[i - f.cursor]
                        ELSE IF i <= Len(f.file) THEN f.file[i] ELSE 0],
            !.cursor = f.cursor + Len(bytes)]

\* <&File as Seek>::seek(SeekFrom::Start(to))
File_seek(f, to) == [f EXCEPT !.cursor = to]

\* BufReader::new: an empty buffer; rbuf is the part of the buffer that was
\* filled and not yet consumed
BufReader_new(f) == [f EXCEPT !.mode = "Read", !.rbuf = <<>>, !.wbuf = <<>>]

\* BufReader::seek(SeekFrom::Start(to)): seeks the file, discards the buffer
BufReader_seek(f, to) == [File_seek(f, to) EXCEPT !.rbuf = <<>>]

\* BufReader::read: with an empty buffer and a destination of at least the
\* capacity the read goes straight to the file; otherwise the buffer is
\* filled when empty (also for a destination of length 0) and the read is
\* served from it
BufReader_read(f, n) ==
    IF f.rbuf = <<>> /\ n >= BufCap
    THEN File_read(f, n)
    ELSE LET filled == IF f.rbuf = <<>>
                       THEN LET r == File_read(f, BufCap)
                            IN  [r.st EXCEPT !.rbuf = r.got]
                       ELSE f
             nread == Min(n, Len(filled.rbuf))
         IN  [st |-> [filled EXCEPT !.rbuf = Drop(filled.rbuf, nread)],
              got |-> Take(filled.rbuf, nread)]

\* BufWriter::new: an empty buffer; wbuf holds the bytes accepted by write
\* and not yet handed to the file
BufWriter_new(f) == [f EXCEPT !.mode = "Write", !.rbuf = <<>>, !.wbuf = <<>>]

\* BufWriter::flush_buf: the buffered bytes go to the file at its cursor
BufWriter_flush_buf(f) == [File_write(f, f.wbuf) EXCEPT !.wbuf = <<>>]

\* BufWriter::seek: flush_buf, then seek the file
BufWriter_seek(f, to) == File_seek(BufWriter_flush_buf(f), to)

\* BufWriter::write, write_cold: bytes shorter than the spare capacity are
\* buffered; otherwise the buffer is flushed if they do not fit, and they go
\* straight to the file when they are at least the capacity
BufWriter_write(f, bytes) ==
    IF Len(bytes) < BufCap - Len(f.wbuf)
    THEN [f EXCEPT !.wbuf = f.wbuf \o bytes]
    ELSE LET flushed == IF Len(bytes) > BufCap - Len(f.wbuf)
                        THEN BufWriter_flush_buf(f)
                        ELSE f
         IN  IF Len(bytes) >= BufCap
             THEN File_write(flushed, bytes)
             ELSE [flushed EXCEPT !.wbuf = flushed.wbuf \o bytes]

----------------------------------------------------------------------------
(* FileStream: file.rs *)

\* OpenOptions create(true).truncate(false).read(true).write(true): the
\* content found on disk is kept, the cursor of the new descriptor is 0
FileStream_new_read(content) ==
    [position |-> 0, len |-> Len(content), mode |-> "Read",
     rbuf |-> <<>>, wbuf |-> <<>>, file |-> content, cursor |-> 0]

\* FileStream_new_write opening with truncate(true)
FileStream_new_write_truncating(content) ==
    [position |-> 0, len |-> 0, mode |-> "Write",
     rbuf |-> <<>>, wbuf |-> <<>>, file |-> <<>>, cursor |-> 0]

FileStream_new_write(content) ==
    [position |-> 0, len |-> Len(content), mode |-> "Write",
     rbuf |-> <<>>, wbuf |-> <<>>, file |-> content, cursor |-> 0]

\* FileStream_seek that moves the handle and forgets the cached position
FileStream_seek_stale_position(f, to) ==
    LET sought == IF f.mode = "Read"
                  THEN BufReader_seek(f, to)
                  ELSE BufWriter_seek(f, to)
    IN  Result(sought, "ok", to, <<>>)

FileStream_seek(f, to) ==
    LET sought == IF f.mode = "Read"
                  THEN BufReader_seek(f, to)
                  ELSE BufWriter_seek(f, to)
    IN  Result([sought EXCEPT !.position = to], "ok", to, <<>>)

FileStream_position(f) == f.position

FileStream_len(f) == f.len

\* FileStream_read whose new reader is not sought to the position
FileStream_read_no_seek(f, n) ==
    LET reading == IF f.mode = "Write"
                   THEN BufReader_new(BufWriter_flush_buf(f))
                   ELSE f
        r == BufReader_read(reading, n)
        size == Len(r.got)
    IN  Result([r.st EXCEPT !.position = reading.position + size],
               "ok", size, r.got)

FileStream_read(f, n) ==
    LET reading == IF f.mode = "Write"
                   THEN BufReader_seek(BufReader_new(BufWriter_flush_buf(f)),
                                       f.position)
                   ELSE f
        r == BufReader_read(reading, n)
        size == Len(r.got)
    IN  Result([r.st EXCEPT !.position = reading.position + size],
               "ok", size, r.got)

\* FileStream_write that grows the cached length and leaves the position
FileStream_write_stale_position(f, bytes) ==
    LET writing == IF f.mode = "Read" THEN BufWriter_new(f) ELSE f
        written == BufWriter_write(writing, bytes)
        size == Len(bytes)
    IN  Result([written EXCEPT !.len = writing.len + size], "ok", size, <<>>)

FileStream_write(f, bytes) ==
    LET writing == IF f.mode = "Read" THEN BufWriter_new(f) ELSE f
        written == BufWriter_write(writing, bytes)
        size == Len(bytes)
    IN  Result([written EXCEPT !.len = writing.len + size,
                               !.position = writing.position + size],
               "ok", size, <<>>)

\* FileStream_flush that replaces the flushed writer by a reader
FileStream_flush_reopens_reader(f) ==
    Result(IF f.mode = "Write"
           THEN BufReader_seek(BufReader_new(BufWriter_flush_buf(f)), f.position)
           ELSE f,
           "ok", 0, <<>>)

FileStream_flush(f) ==
    Result(IF f.mode = "Write" THEN BufWriter_flush_buf(f) ELSE f,
           "ok", 0, <<>>)

\* what the file holds once the bytes still in the writer have reached it
FileView(f) == File_write(f, f.wbuf).file

----------------------------------------------------------------------------
(* The provided methods of std::io::Read and std::io::Write that the tests *)
(* and the fuzz targets call; each is a loop over the stream's own read or *)
(* write.  b names the backend of the stream st.                           *)

Stream_seek(b, st, to) ==
    CASE b = "slice" -> SliceStream_seek(st, to)
      [] b = "memory" -> MemoryStream_seek(st, to)
      [] OTHER -> FileStream_seek(st, to)

Stream_read(b, st, n) ==
    CASE b = "slice" -> SliceStream_read(st, n)
      [] b = "memory" -> MemoryStream_read(st, n)
      [] OTHER -> FileStream_read(st, n)

Stream_write(b, st, bytes) ==
    IF b = "memory" THEN MemoryStream_write(st, bytes)
    ELSE FileStream_write(st, bytes)

\* Write::write_all: write until nothing is left; a write of 0 bytes is the
\* error WriteZero
RECURSIVE Write_write_all(_, _, _)
Write_write_all(b, st, bytes) ==
    IF bytes = <<>>
    THEN Result(st, "ok", 0, <<>>)
    ELSE LET r == Stream_write(b, st, bytes)
         IN  IF r.status # "ok" THEN r
             ELSE IF r.ret = 0 THEN Result(r.st, "err", 0, <<>>)
             ELSE Write_write_all(b, r.st, Drop(bytes, r.ret))

\* Read::read_exact: read until n bytes are there; a read of 0 bytes before
\* that is the error UnexpectedEof
RECURSIVE Read_read_exact(_, _, _, _)
Read_read_exact(b, st, n, acc) ==
    IF n = 0
    THEN Result(st, "ok", 0, acc)
    ELSE LET r == Stream_read(b, st, n)
         IN  IF r.ret = 0 THEN Result(r.st, "err", 0, acc)
             ELSE Read_read_exact(b, r.st, n - r.ret, acc \o r.got)

\* Read::read_to_end: read into the end of the Vec until a read returns 0,
\* and return the number of bytes appended
RECURSIVE Read_read_to_end(_, _, _)
Read_read_to_end(b, st, acc) ==
    LET r == Stream_read(b, st, Probe)
    IN  IF r.ret = 0 THEN Result(r.st, "ok", Len(acc), acc)
        ELSE Read_read_to_end(b, r.st, acc \o r.got)

----------------------------------------------------------------------------
(* The state: the one stream the caller constructed, and its last call *)

NoSlice == SliceStream_new(<<>>)
NoMem == MemoryStream_new
NoFile == FileStream_new_read(<<>>)

\* the record of a call: the operation, its argument (seek target or size of
\* the buffer), the bytes written, the result, the stream before the call
\* and the operation called before this one
Called(op, arg, bytes, r, pre, before) ==
    [op |-> op, arg |-> arg, bytes |-> bytes, status |-> r.status,
     ret |-> r.ret, got |-> r.got, pre |-> pre, before |-> before]

Call(op, arg, bytes, r, pre) == Called(op, arg, bytes, r, pre, last.op)

Constructed(st) ==
    Called("new", 0, <<>>, Result(st, "ok", 0, <<>>), st, "none")

\* the record of FileStream::new_read / new_write: `bytes` is the content the
\* file held when it was opened
Opened(op, content, st) ==
    Called(op, 0, content, Result(st, "ok", 0, <<>>), st, "none")

InitSlice ==
    /\ backend = "slice"
    /\ \E buffer \in SeqsUpTo(MaxInit + 1) : slice = SliceStream_new(buffer)
    /\ mem = NoMem
    /\ fs = NoFile
    /\ last = Constructed(slice)

InitMemory ==
    /\ backend = "memory"
    /\ slice = NoSlice
    /\ \/ mem = MemoryStream_new
       \/ \E buffer \in SeqsUpTo(MaxInit) : mem = MemoryStream_from(buffer)
    /\ fs = NoFile
    /\ last = Constructed(mem)

InitFile ==
    /\ backend = "file"
    /\ slice = NoSlice
    /\ mem = NoMem
    /\ \E content \in SeqsUpTo(MaxInit) :
         \/ /\ fs = FileStream_new_read(content)
            /\ last = Opened("new_read", content, fs)
         \/ /\ fs = FileStream_new_write(content)
            /\ last = Opened("new_write", content, fs)

Init ==
    /\ InitSlice \/ InitMemory \/ InitFile
    /\ pc = "free"
    /\ data = <<>>
    /\ out = <<>>

\* a panic unwinds the caller: nothing is called after it
Running == last.status = "ok"

SliceSeek ==
    /\ backend = "slice" /\ Running
    /\ \E to \in 0..MaxPos :
         LET r == SliceStream_seek(slice, to)
         IN  /\ slice' = r.st
             /\ last' = Call("seek", to, <<>>, r, slice)
    /\ UNCHANGED <<backend, mem, fs, pc, data, out>>

SliceRead ==
    /\ backend = "slice" /\ Running
    /\ \E n \in 0..MaxRead :
         LET r == SliceStream_read(slice, n)
         IN  /\ slice' = r.st
             /\ last' = Call("read", n, <<>>, r, slice)
    /\ UNCHANGED <<backend, mem, fs, pc, data, out>>

MemSeek ==
    /\ backend = "memory" /\ Running
    /\ \E to \in 0..MaxPos :
         LET r == MemoryStream_seek(mem, to)
         IN  /\ mem' = r.st
             /\ last' = Call("seek", to, <<>>, r, mem)
    /\ UNCHANGED <<backend, slice, fs, pc, data, out>>

MemRead ==
    /\ backend = "memory" /\ Running
    /\ \E n \in 0..MaxRead :
         LET r == MemoryStream_read(mem, n)
         IN  /\ mem' = r.st
             /\ last' = Call("read", n, <<>>, r, mem)
    /\ UNCHANGED <<backend, slice, fs, pc, data, out>>

MemWrite ==
    /\ backend = "memory" /\ Running
    /\ \E bytes \in SeqsUpTo(MaxWrite) :
         /\ mem.position + Len(bytes) <= MaxLen
         /\ LET r == MemoryStream_write(mem, bytes)
            IN  /\ mem' = r.st
                /\ last' = Call("write", Len(bytes), bytes, r, mem)
    /\ UNCHANGED <<backend, slice, fs, pc, data, out>>

MemFlush ==
    /\ backend = "memory" /\ Running
    /\ LET r == MemoryStream_flush(mem)
       IN  /\ mem' = r.st
           /\ last' = Call("flush", 0, <<>>, r, mem)
    /\ UNCHANGED <<backend, slice, fs, pc, data, out>>

FileSeek ==
    /\ backend = "file" /\ Running
    /\ \E to \in 0..MaxPos :
         LET r == FileStream_seek(fs, to)
         IN  /\ fs' = r.st
             /\ last' = Call("seek", to, <<>>, r, fs)
    /\ UNCHANGED <<backend, slice, mem, pc, data, out>>

FileRead ==
    /\ backend = "file" /\ Running
    /\ \E n \in 0..MaxRead :
         LET r == FileStream_read(fs, n)
         IN  /\ fs' = r.st
             /\ last' = Call("read", n, <<>>, r, fs)
    /\ UNCHANGED <<backend, slice, mem, pc, data, out>>

\* the three guards keep the file, the cached length and the position bounded
FileWrite ==
    /\ backend = "file" /\ Running
    /\ \E bytes \in SeqsUpTo(MaxWrite) :
         /\ fs.position + Len(bytes) <= MaxLen
         /\ fs.cursor + Len(fs.wbuf) + Len(bytes) <= MaxLen
         /\ fs.len + Len(bytes) <= MaxLen + MaxWrite
         /\ LET r == FileStream_write(fs, bytes)
            IN  /\ fs' = r.st
                /\ last' = Call("write", Len(bytes), bytes, r, fs)
    /\ UNCHANGED <<backend, slice, mem, pc, data, out>>

FileFlush ==
    /\ backend = "file" /\ Running
    /\ LET r == FileStream_flush(fs)
       IN  /\ fs' = r.st
           /\ last' = Call("flush", 0, <<>>, r, fs)
    /\ UNCHANGED <<backend, slice, mem, pc, data, out>>

Next ==
    \/ SliceSeek \/ SliceRead
    \/ MemSeek \/ MemRead \/ MemWrite \/ MemFlush
    \/ FileSeek \/ FileRead \/ FileWrite \/ FileFlush

Spec == Init /\ [][Next]_vars

----------------------------------------------------------------------------
(* The write_read / read_to_end tests and the fuzz targets: a fresh stream, *)
(* write_all(data), seek(0), then read_exact or read_to_end.                *)

InitRoundTrip ==
    /\ backend \in {"memory", "file"}
    /\ slice = NoSlice
    /\ mem = MemoryStream_new
    /\ IF backend = "file"
       THEN fs \in {FileStream_new_write(<<>>), FileStream_new_read(<<>>)}
       ELSE fs = NoFile
    /\ last = Constructed(IF backend = "file" THEN fs ELSE mem)
    /\ pc = "write_all"
    /\ data \in SeqsUpTo(MaxData)
    /\ out = <<>>

\* the stream under test
Stream == IF backend = "memory" THEN mem ELSE fs

\* the stream under test becomes st
Becomes(st) ==
    IF backend = "memory"
    THEN mem' = st /\ UNCHANGED fs
    ELSE fs' = st /\ UNCHANGED mem

RoundTripWriteAll ==
    /\ pc = "write_all"
    /\ LET r == Write_write_all(backend, Stream, data)
       IN  /\ Becomes(r.st)
           /\ last' = Call("write_all", Len(data), data, r, Stream)
    /\ pc' = "seek"
    /\ UNCHANGED <<backend, slice, data, out>>

RoundTripSeek ==
    /\ pc = "seek" /\ Running
    /\ LET r == Stream_seek(backend, Stream, 0)
       IN  /\ Becomes(r.st)
           /\ last' = Call("seek", 0, <<>>, r, Stream)
    /\ pc' = "read"
    /\ UNCHANGED <<backend, slice, data, out>>

RoundTripReadExact ==
    /\ pc = "read" /\ Running
    /\ LET r == Read_read_exact(backend, Stream, Len(data), <<>>)
       IN  /\ Becomes(r.st)
           /\ last' = Call("read_exact", Len(data), <<>>, r, Stream)
           /\ out' = r.got
    /\ pc' = "done"
    /\ UNCHANGED <<backend, slice, data>>

RoundTripReadToEnd ==
    /\ pc = "read" /\ Running
    /\ LET r == Read_read_to_end(backend, Stream, <<>>)
       IN  /\ Becomes(r.st)
           /\ last' = Call("read_to_end", 0, <<>>, r, Stream)
           /\ out' = r.got
    /\ pc' = "done"
    /\ UNCHANGED <<backend, slice, data>>

NextRoundTrip ==
    \/ RoundTripWriteAll
    \/ RoundTripSeek
    \/ RoundTripReadExact
    \/ RoundTripReadToEnd

SpecRoundTrip == InitRoundTrip /\ [][NextRoundTrip]_vars

----------------------------------------------------------------------------
(* Two streams driven by the same calls: an empty MemoryStream beside a     *)
(* FileStream over an empty file ("memfile"), or a SliceStream beside the   *)
(* MemoryStream built from the same bytes ("slicemem", reads and seeks).    *)

\* what one call returned
Returned(r) == [status |-> r.status, ret |-> r.ret, got |-> r.got]

\* the record of one call made on both streams
Called2(op, arg, bytes, ra, rb) ==
    [op |-> op, arg |-> arg, bytes |-> bytes, status |-> "ok",
     a |-> Returned(ra), b |-> Returned(rb)]

InitDiff ==
    /\ \/ /\ backend = "memfile"
          /\ slice = NoSlice
          /\ mem = MemoryStream_new
          /\ fs \in {FileStream_new_write(<<>>), FileStream_new_read(<<>>)}
       \/ /\ backend = "slicemem"
          /\ \E buffer \in SeqsUpTo(MaxInit + 1) :
               /\ slice = SliceStream_new(buffer)
               /\ mem = MemoryStream_from(buffer)
          /\ fs = NoFile
    /\ last = Called2("new", 0, <<>>, Result(mem, "ok", 0, <<>>),
                      Result(mem, "ok", 0, <<>>))
    /\ pc = "free"
    /\ data = <<>>
    /\ out = <<>>

\* a panic of either stream unwinds the caller
RunningBoth == last.a.status = "ok" /\ last.b.status = "ok"

DiffSeek ==
    /\ RunningBoth
    /\ \E to \in 0..MaxPos :
         LET rm == MemoryStream_seek(mem, to)
             rf == FileStream_seek(fs, to)
             rs == SliceStream_seek(slice, to)
         IN  /\ mem' = rm.st
             /\ IF backend = "memfile"
                THEN /\ fs' = rf.st /\ UNCHANGED slice
                     /\ last' = Called2("seek", to, <<>>, rm, rf)
                ELSE /\ slice' = rs.st /\ UNCHANGED fs
                     /\ last' = Called2("seek", to, <<>>, rs, rm)
    /\ UNCHANGED <<backend, pc, data, out>>

DiffRead ==
    /\ RunningBoth
    /\ \E n \in 0..MaxRead :
         LET rm == MemoryStream_read(mem, n)
             rf == FileStream_read(fs, n)
             rs == SliceStream_read(slice, n)
         IN  /\ mem' = rm.st
             /\ IF backend = "memfile"
                THEN /\ fs' = rf.st /\ UNCHANGED slice
                     /\ last' = Called2("read", n, <<>>, rm, rf)
                ELSE /\ slice' = rs.st /\ UNCHANGED fs
                     /\ last' = Called2("read", n, <<>>, rs, rm)
    /\ UNCHANGED <<backend, pc, data, out>>

DiffWrite ==
    /\ RunningBoth /\ backend = "memfile"
    /\ \E bytes \in SeqsUpTo(MaxWrite) :
         /\ mem.position + Len(bytes) <= MaxLen
         /\ fs.position + Len(bytes) <= MaxLen
         /\ fs.cursor + Len(fs.wbuf) + Len(bytes) <= MaxLen
         /\ fs.len + Len(bytes) <= MaxLen + MaxWrite
         /\ LET rm == MemoryStream_write(mem, bytes)
                rf == FileStream_write(fs, bytes)
            IN  /\ mem' = rm.st
                /\ fs' = rf.st
                /\ last' = Called2("write", Len(bytes), bytes, rm, rf)
    /\ UNCHANGED <<backend, slice, pc, data, out>>

DiffFlush ==
    /\ RunningBoth /\ backend = "memfile"
    /\ LET rm == MemoryStream_flush(mem)
           rf == FileStream_flush(fs)
       IN  /\ mem' = rm.st
           /\ fs' = rf.st
           /\ last' = Called2("flush", 0, <<>>, rm, rf)
    /\ UNCHANGED <<backend, slice, pc, data, out>>

NextDiff == DiffSeek \/ DiffRead \/ DiffWrite \/ DiffFlush

SpecDiff == InitDiff /\ [][NextDiff]_vars


----------------------------------------------------------------------------
(* A caller of a FileStream that, after at most MaxPrelude calls of any     *)
(* kind, finds the stream in WriteMode and calls write(a), seek(q),         *)
(* write(b) and flush().  `out` notes what it wrote where.                  *)

\* number of calls before write(a)
MaxPrelude == 2

NoWrites == [p |-> 0, a |-> <<>>, q |-> 0, b |-> <<>>]

\* the bounds FileWrite puts on a write
WriteFits(bytes) ==
    /\ fs.position + Len(bytes) <= MaxLen
    /\ fs.cursor + Len(fs.wbuf) + Len(bytes) <= MaxLen
    /\ fs.len + Len(bytes) <= MaxLen + MaxWrite

InitPending ==
    /\ InitFile
    /\ pc = "prelude"
    /\ data = <<>>
    /\ out = NoWrites

\* one more call of the prelude; data counts them
PendingPrelude ==
    /\ pc = "prelude" /\ Len(data) < MaxPrelude
    /\ \/ \E to \in 0..MaxPos :
            LET r == FileStream_seek(fs, to)
            IN  fs' = r.st /\ last' = Call("seek", to, <<>>, r, fs)
       \/ \E n \in 0..MaxRead :
            LET r == FileStream_read(fs, n)
            IN  fs' = r.st /\ last' = Call("read", n, <<>>, r, fs)
       \/ \E bytes \in SeqsUpTo(MaxWrite) :
            /\ WriteFits(bytes)
            /\ LET r == FileStream_write(fs, bytes)
               IN  fs' = r.st /\ last' = Call("write", Len(bytes), bytes, r, fs)
    /\ data' = Append(data, 0)
    /\ UNCHANGED <<backend, slice, mem, pc, out>>

PendingWriteA ==
    /\ pc = "prelude" /\ fs.mode = "Write"
    /\ \E a \in SeqsUpTo(MaxWrite) :
         /\ WriteFits(a)
         /\ LET r == FileStream_write(fs, a)
            IN  /\ fs' = r.st
                /\ last' = Call("write", Len(a), a, r, fs)
                /\ out' = [out EXCEPT !.p = fs.position, !.a = a]
    /\ pc' = "seek"
    /\ UNCHANGED <<backend, slice, mem, data>>

PendingSeek ==
    /\ pc = "seek"
    /\ \E q \in 0..MaxPos :
         LET r == FileStream_seek(fs, q)
         IN  /\ fs' = r.st
             /\ last' = Call("seek", q, <<>>, r, fs)
             /\ out' = [out EXCEPT !.q = q]
    /\ pc' = "write_b"
    /\ UNCHANGED <<backend, slice, mem, data>>

PendingWriteB ==
    /\ pc = "write_b"
    /\ \E b \in SeqsUpTo(MaxWrite) :
         /\ WriteFits(b)
         /\ LET r == FileStream_write(fs, b)
            IN  /\ fs' = r.st
                /\ last' = Call("write", Len(b), b, r, fs)
                /\ out' = [out EXCEPT !.b = b]
    /\ pc' = "flush"
    /\ UNCHANGED <<backend, slice, mem, data>>

PendingFlush ==
    /\ pc = "flush"
    /\ LET r == FileStream_flush(fs)
       IN  /\ fs' = r.st
           /\ last' = Call("flush", 0, <<>>, r, fs)
    /\ pc' = "done"
    /\ UNCHANGED <<backend, slice, mem, data, out>>

NextPending ==
    \/ PendingPrelude
    \/ PendingWriteA
    \/ PendingSeek
    \/ PendingWriteB
    \/ PendingFlush

SpecPending == InitPending /\ [][NextPending]_vars

----------------------------------------------------------------------------
(* I/O errors.  A call of the file can fail where the stream code has a     *)
(* `?`: `at` names the failing step ("none": no failure) and k the bytes a  *)
(* failing flush of the writer had handed to the file before the error.     *)
(* A step that makes no system call cannot fail: a flush of an empty        *)
(* writer, a read served from the reader's buffer, a write that fits the    *)
(* writer's buffer.                                                         *)

\* BufWriter::flush_buf failing after k bytes: the bytes written leave the
\* buffer, the others stay in it
BufWriter_flush_buf_failed(f, k) ==
    [File_write(f, Take(f.wbuf, k)) EXCEPT !.wbuf = Drop(f.wbuf, k)]

\* flush_buf has bytes to write, and k of them can precede an error
FlushCanFail(f, k) == f.mode = "Write" /\ k < Len(f.wbuf)

\* FileStream_seek_io that stores the target although the seek failed
FileStream_seek_io_moves_position(f, to, at, k) ==
    IF at = "none" THEN FileStream_seek(f, to)
    ELSE IF at = "flush"
    THEN Result([BufWriter_flush_buf_failed(f, k) EXCEPT !.position = to],
                "err_flush", 0, <<>>)
    ELSE Result([(IF f.mode = "Write" THEN BufWriter_flush_buf(f) ELSE f)
                    EXCEPT !.position = to],
                "err_seek", 0, <<>>)

\* FileStream::seek: reader.seek(..)? fails in the seek of the file, with
\* the reader's buffer kept; writer.seek(..)? fails in flush_buf or, after
\* it, in the seek of the file.  self.position is set on success only
FileStream_seek_io(f, to, at, k) ==
    IF at = "none" THEN FileStream_seek(f, to)
    ELSE IF at = "flush"
    THEN Result(BufWriter_flush_buf_failed(f, k), "err_flush", 0, <<>>)
    ELSE Result(IF f.mode = "Write" THEN BufWriter_flush_buf(f) ELSE f,
                "err_seek", 0, <<>>)

SeekCanFail(f, at, k) ==
    \/ at = "none" /\ k = 0
    \/ at = "flush" /\ FlushCanFail(f, k)
    \/ at = "seek" /\ k = 0

\* FileStream::read: writer.flush()? and r.seek(..)? return before the mode
\* is replaced; reader.read(buffer)? returns after it, before the position
\* is advanced
FileStream_read_io(f, n, at, k) ==
    IF at = "none" THEN FileStream_read(f, n)
    ELSE IF at = "flush"
    THEN Result(BufWriter_flush_buf_failed(f, k), "err_flush", 0, <<>>)
    ELSE IF at = "seek"
    THEN Result(BufWriter_flush_buf(f), "err_seek", 0, <<>>)
    ELSE Result(IF f.mode = "Write"
                THEN BufReader_seek(BufReader_new(BufWriter_flush_buf(f)),
                                    f.position)
                ELSE f,
                "err_read", 0, <<>>)

ReadCanFail(f, at, k) ==
    \/ at = "none" /\ k = 0
    \/ at = "flush" /\ FlushCanFail(f, k)
    \/ at = "seek" /\ f.mode = "Write" /\ k = 0
    \/ at = "read" /\ (f.mode = "Write" \/ f.rbuf = <<>>) /\ k = 0

\* FileStream::write: the mode is replaced first; writer.write(bytes)? fails
\* in flush_buf, when the bytes do not fit the buffer, or in the write of
\* bytes of at least the capacity to the file; len and position are
\* advanced on success only
FileStream_write_io(f, bytes, at, k) ==
    LET writing == IF f.mode = "Read" THEN BufWriter_new(f) ELSE f
    IN  IF at = "none" THEN FileStream_write(f, bytes)
        ELSE IF at = "flush"
        THEN Result(BufWriter_flush_buf_failed(writing, k), "err_flush", 0, <<>>)
        ELSE Result(BufWriter_flush_buf(writing), "err_write", 0, <<>>)

WriteCanFail(f, bytes, at, k) ==
    \/ at = "none" /\ k = 0
    \/ /\ at = "flush" /\ FlushCanFail(f, k)
       /\ Len(bytes) > BufCap - Len(f.wbuf)
    \/ at = "write" /\ Len(bytes) >= BufCap /\ k = 0

\* FileStream::flush: writer.flush()? fails in flush_buf
FileStream_flush_io(f, at, k) ==
    IF at = "none" THEN FileStream_flush(f)
    ELSE Result(BufWriter_flush_buf_failed(f, k), "err_flush", 0, <<>>)

FlushCallCanFail(f, at, k) ==
    \/ at = "none" /\ k = 0
    \/ at = "flush" /\ FlushCanFail(f, k)

FailurePoints == {"none", "flush", "seek", "read", "write"}

\* the bytes written are 1 and the bytes of the file's first content are 0,
\* which tells them apart and keeps the number of contents small
InitFault ==
    /\ InitFile
    /\ \A i \in 1..Len(fs.file) : fs.file[i] = 0
    /\ pc = "free"
    /\ data = <<>>
    /\ out = <<>>

\* the caller stops at the first error
FaultSeek ==
    /\ Running
    /\ \E to \in 0..MaxPos, at \in FailurePoints, k \in 0..BufCap :
         /\ SeekCanFail(fs, at, k)
         /\ LET r == FileStream_seek_io(fs, to, at, k)
            IN  /\ fs' = r.st
                /\ last' = Call("seek", to, <<>>, r, fs)
    /\ UNCHANGED <<backend, slice, mem, pc, data, out>>

FaultRead ==
    /\ Running
    /\ \E n \in 0..MaxRead, at \in FailurePoints, k \in 0..BufCap :
         /\ ReadCanFail(fs, at, k)
         /\ LET r == FileStream_read_io(fs, n, at, k)
            IN  /\ fs' = r.st
                /\ last' = Call("read", n, <<>>, r, fs)
    /\ UNCHANGED <<backend, slice, mem, pc, data, out>>

FaultWrite ==
    /\ Running
    /\ \E bytes \in SeqsUpTo(MaxWrite), at \in FailurePoints, k \in 0..BufCap :
         /\ WriteFits(bytes)
         /\ \A i \in 1..Len(bytes) : bytes[i] = 1
         /\ WriteCanFail(fs, bytes, at, k)
         /\ LET r == FileStream_write_io(fs, bytes, at, k)
            IN  /\ fs' = r.st
                /\ last' = Call("write", Len(bytes), bytes, r, fs)
    /\ UNCHANGED <<backend, slice, mem, pc, data, out>>

FaultFlush ==
    /\ Running
    /\ \E at \in FailurePoints, k \in 0..BufCap :
         /\ FlushCallCanFail(fs, at, k)
         /\ LET r == FileStream_flush_io(fs, at, k)
            IN  /\ fs' = r.st
                /\ last' = Call("flush", 0, <<>>, r, fs)
    /\ UNCHANGED <<backend, slice, mem, pc, data, out>>

NextFault == FaultSeek \/ FaultRead \/ FaultWrite \/ FaultFlush

SpecFault == InitFault /\ [][NextFault]_vars

----------------------------------------------------------------------------
(* packages/binary_rw: the earlier FileStream, which reads and writes the   *)
(* file without a buffer and keeps the metadata taken when it was made.     *)
(* Here fs is [file, cursor, metadata_len].                                 *)

\* FileStream::new(file) after open / write (the content is kept) or after
\* create (the file is truncated first)
BinaryRw_new(content) ==
    [file |-> content, cursor |-> 0, metadata_len |-> Len(content)]

BinaryRw_create(content) == BinaryRw_new(<<>>)

BinaryRw_seek(f, to) == Result(File_seek(f, to), "ok", to, <<>>)

BinaryRw_tell(f) == f.cursor

BinaryRw_len(f) == f.metadata_len

\* read refuses a buffer that reaches past the length in the metadata
BinaryRw_read(f, n) ==
    IF BinaryRw_tell(f) + n > f.metadata_len
    THEN Result(f, "eof", 0, <<>>)
    ELSE LET r == File_read(f, n)
         IN  Result(r.st, "ok", Len(r.got), r.got)

BinaryRw_write(f, bytes) == Result(File_write(f, bytes), "ok", Len(bytes), <<>>)

BinaryRw_flush(f) == Result(f, "ok", 0, <<>>)

InitBinaryRw ==
    /\ backend = "binary_rw"
    /\ slice = NoSlice
    /\ mem = NoMem
    /\ \E content \in SeqsUpTo(MaxInit + 1) :
         \/ fs = BinaryRw_new(content)
         \/ fs = BinaryRw_create(content)
    /\ last = Constructed(fs)
    /\ pc = "free"
    /\ data = <<>>
    /\ out = <<>>

\* the caller goes on after an error: the stream is as it was
BinaryRwSeek ==
    /\ \E to \in 0..MaxPos :
         LET r == BinaryRw_seek(fs, to)
         IN  /\ fs' = r.st
             /\ last' = Call("seek", to, <<>>, r, fs)
    /\ UNCHANGED <<backend, slice, mem, pc, data, out>>

BinaryRwRead ==
    /\ \E n \in 0..MaxRead :
         LET r == BinaryRw_read(fs, n)
         IN  /\ fs' = r.st
             /\ last' = Call("read", n, <<>>, r, fs)
    /\ UNCHANGED <<backend, slice, mem, pc, data, out>>

BinaryRwWrite ==
    /\ \E bytes \in SeqsUpTo(MaxWrite) :
         /\ fs.cursor + Len(bytes) <= MaxLen
         /\ LET r == BinaryRw_write(fs, bytes)
            IN  /\ fs' = r.st
                /\ last' = Call("write", Len(bytes), bytes, r, fs)
    /\ UNCHANGED <<backend, slice, mem, pc, data, out>>

BinaryRwFlush ==
    /\ LET r == BinaryRw_flush(fs)
       IN  /\ fs' = r.st
           /\ last' = Call("flush", 0, <<>>, r, fs)
    /\ UNCHANGED <<backend, slice, mem, pc, data, out>>

NextBinaryRw == BinaryRwSeek \/ BinaryRwRead \/ BinaryRwWrite \/ BinaryRwFlush

SpecBinaryRw == InitBinaryRw /\ [][NextBinaryRw]_vars

----------------------------------------------------------------------------
(* packages/binary_rw: FileCloneable, a handle { file: Arc<File> } with     *)
(* #[derive(Clone)].  Here fs is [file, cursors, clones]: the content, the  *)
(* offset of every open file description, and for every clone the           *)
(* description its Arc points to.  Each clone is used by a thread of its    *)
(* own; a call is one system call, so the calls interleave.                 *)

Clones == {1, 2}

\* FileCloneable::new: Arc::new(file), one open file description
FileCloneable_new(content) == [file |-> content, cursors |-> <<0>>]

\* the derived Clone: Arc::clone, the same File, the same description
FileCloneable_clone(description) == description

\* the offset at which the next read or write through clone c takes place
Offset(f, c) == f.cursors[f.clones[c]]

\* the file as clone c has it: File_read, File_write and File_seek act on it
Through(f, c) == [file |-> f.file, cursor |-> Offset(f, c)]

\* what a call through clone c left behind
Behind(f, c, after) ==
    [f EXCEPT !.file = after.file, !.cursors[f.clones[c]] = after.cursor]

\* Seek for FileCloneable: self.file.deref().seek(..)
FileCloneable_seek(f, c, to) ==
    Result(Behind(f, c, File_seek(Through(f, c), to)), "ok", to, <<>>)

\* Read for FileCloneable: read_exact_until_eof(self, buf), which fills the
\* buffer from the file until it is full or the file ends
FileCloneable_read(f, c, n) ==
    LET r == File_read(Through(f, c), n)
    IN  Result(Behind(f, c, r.st), "ok", Len(r.got), r.got)

\* Write for FileCloneable: self.file.deref().write(buf)
FileCloneable_write(f, c, bytes) ==
    Result(Behind(f, c, File_write(Through(f, c), bytes)), "ok", Len(bytes), <<>>)

\* the offsets of all clones
Offsets(f) == [c \in Clones |-> Offset(f, c)]

\* the record of a call through clone c
CalledThrough(c, op, arg) ==
    [clone |-> c, op |-> op, arg |-> arg, status |-> "ok", offsets |-> Offsets(fs)]

InitClone ==
    /\ backend = "cloneable"
    /\ slice = NoSlice
    /\ mem = NoMem
    /\ \E content \in SeqsUpTo(MaxInit) :
         LET made == FileCloneable_new(content)
         IN  fs = [file |-> made.file, cursors |-> made.cursors,
                   clones |-> [c \in Clones |->
                                 IF c = 1 THEN 1 ELSE FileCloneable_clone(1)]]
    /\ last = [clone |-> 0, op |-> "new", arg |-> 0, status |-> "ok",
               offsets |-> Offsets(fs)]
    /\ pc = "free"
    /\ data = <<>>
    /\ out = <<>>

CloneSeek ==
    /\ \E c \in Clones, to \in 0..MaxPos :
         /\ fs' = FileCloneable_seek(fs, c, to).st
         /\ last' = CalledThrough(c, "seek", to)
    /\ UNCHANGED <<backend, slice, mem, pc, data, out>>

CloneRead ==
    /\ \E c \in Clones, n \in 0..MaxRead :
         /\ fs' = FileCloneable_read(fs, c, n).st
         /\ last' = CalledThrough(c, "read", n)
    /\ UNCHANGED <<backend, slice, mem, pc, data, out>>

CloneWrite ==
    /\ \E c \in Clones, bytes \in SeqsUpTo(MaxWrite) :
         /\ Offset(fs, c) + Len(bytes) <= MaxLen
         /\ fs' = FileCloneable_write(fs, c, bytes).st
         /\ last' = CalledThrough(c, "write", Len(bytes))
    /\ UNCHANGED <<backend, slice, mem, pc, data, out>>

NextClone == CloneSeek \/ CloneRead \/ CloneWrite

SpecClone == InitClone /\ [][NextClone]_vars

----------------------------------------------------------------------------
(* What the caller observes of the constructed stream *)

\* position() of the constructed stream
Position ==
    CASE backend = "slice" -> SliceStream_position(slice)
      [] backend = "memory" -> MemoryStream_position(mem)
      [] OTHER -> FileStream_position(fs)

\* len() of the constructed stream
Length ==
    CASE backend = "slice" -> SliceStream_len(slice)
      [] backend = "memory" -> MemoryStream_len(mem)
      [] OTHER -> FileStream_len(fs)

\* len() before the last call
PreLength ==
    IF backend = "file" THEN FileStream_len(last.pre) ELSE Len(last.pre.buffer)

----------------------------------------------------------------------------
(* C2: read-to-write switch of FileStream *)

\* C2: a write issued while the stream is in ReadMode at position p puts its
\* bytes at file offsets [p, p + len) and nowhere else
C2_ReadToWriteKeepsPosition ==
    (backend = "file" /\ last.op = "write" /\ last.before = "read"
        /\ last.pre.mode = "Read") =>
        LET p == last.pre.position
            k == Len(last.bytes)
            old == last.pre.file
            view == FileView(fs)
        IN  /\ \A i \in 1..k : p + i <= Len(view) /\ view[p + i] = last.bytes[i]
            /\ Len(view) <= Max(Len(old), p + k)
            /\ \A i \in 1..Len(view) :
                 (i <= p \/ i > p + k) =>
                     view[i] = IF i <= Len(old) THEN old[i] ELSE 0

----------------------------------------------------------------------------
(* C3: write-to-read switch of FileStream *)

\* C3: a read called in WriteMode leaves no written byte buffered, the file
\* holds what the writer had accepted, the reader stands at the stream's
\* position, and the bytes returned are the file's bytes from the position
\* the read started at
C3_WriteToReadFlushes ==
    (backend = "file" /\ last.op = "read" /\ last.pre.mode = "Write") =>
        LET p == last.pre.position
        IN  /\ last.status = "ok"
            /\ fs.mode = "Read"
            /\ fs.wbuf = <<>>
            /\ fs.file = FileView(last.pre)
            /\ fs.cursor - Len(fs.rbuf) = fs.position
            /\ last.got = SubSeq(fs.file, p + 1, Min(p + last.arg, Len(fs.file)))

\* a read in WriteMode that had bytes to flush and returned some of them
C3_Witness ==
    /\ backend = "file" /\ last.op = "read" /\ last.pre.mode = "Write"
    /\ last.pre.wbuf # <<>>
    /\ fs.file # last.pre.file
    /\ last.pre.position < last.pre.cursor + Len(last.pre.wbuf)
    /\ last.pre.position >= last.pre.cursor
    /\ last.ret > 0

----------------------------------------------------------------------------
(* C4: length after a write *)

\* C4: after a successful write of n bytes at position p with prior length
\* L, len() is max(L, p + n)
C4_LengthIsFurthestWrite ==
    (backend \in {"memory", "file"} /\ last.op = "write" /\ last.status = "ok") =>
        Length = Max(PreLength, last.pre.position + last.ret)

----------------------------------------------------------------------------
(* C5: sparse write of MemoryStream *)

\* C5: a MemoryStream write of k bytes at a position p beyond the length L
\* succeeds, makes the length p + k, keeps bytes [0, L), zero-fills [L, p),
\* stores the bytes at [p, p + k) and moves the position to p + k
C5_SparseWriteZeroFills ==
    (backend = "memory" /\ last.op = "write"
        /\ last.pre.position > Len(last.pre.buffer)) =>
        LET p == last.pre.position
            L == Len(last.pre.buffer)
            k == Len(last.bytes)
        IN  /\ last.status = "ok"
            /\ Len(mem.buffer) = p + k
            /\ SubSeq(mem.buffer, 1, L) = last.pre.buffer
            /\ SubSeq(mem.buffer, L + 1, p) = Zeros(p - L)
            /\ SubSeq(mem.buffer, p + 1, p + k) = last.bytes
            /\ mem.position = p + k

----------------------------------------------------------------------------
(* C6: cached length of FileStream *)

\* C6: whenever no written byte is still buffered, len() of a FileStream is
\* the size of the file
C6_CachedLenIsFileSize ==
    (backend = "file" /\ fs.wbuf = <<>>) => FileStream_len(fs) = Len(fs.file)

----------------------------------------------------------------------------
(* C8: no panic *)

\* C8: no call panics, whatever the position and the buffer sizes
C8_NoPanic == last.status # "panic"

----------------------------------------------------------------------------
(* C9: position advances by the bytes transferred *)

\* C9: after a successful read or write that returns n, position() is the
\* position before the call plus n
C9_PositionAdvances ==
    (last.op \in {"read", "write"} /\ last.status = "ok") =>
        Position = last.pre.position + last.ret

\* a FileStream write of some bytes that switched the stream from ReadMode
C9_Witness ==
    /\ backend = "file" /\ last.op = "write" /\ last.status = "ok"
    /\ last.pre.mode = "Read" /\ last.pre.position > 0
    /\ last.ret > 0

----------------------------------------------------------------------------
(* C10: short read at the end of SliceStream and MemoryStream *)

\* C10: a read of SliceStream or MemoryStream at position p with length L
\* succeeds, returns min(n, L - p) when p < L and 0 otherwise, copies bytes
\* [p, p + count) and leaves the stored bytes unchanged
C10_ShortReadAtEnd ==
    (backend \in {"slice", "memory"} /\ last.op = "read") =>
        LET p == last.pre.position
            L == Len(last.pre.buffer)
            count == IF p < L THEN Min(last.arg, L - p) ELSE 0
            now == IF backend = "slice" THEN slice ELSE mem
        IN  /\ last.status = "ok"
            /\ last.ret = count
            /\ last.got = SubSeq(last.pre.buffer, p + 1, p + count)
            /\ now.buffer = last.pre.buffer
            /\ Length = L

\* a read of a SliceStream that asked for more than was left and got some
C10_Witness ==
    /\ backend = "slice" /\ last.op = "read"
    /\ last.pre.position < Len(last.pre.buffer)
    /\ last.arg > Len(last.pre.buffer) - last.pre.position
    /\ last.ret > 0

----------------------------------------------------------------------------
(* C1: round trip *)

\* C1: on a fresh empty MemoryStream or FileStream, write_all(data), seek(0)
\* and a read of len(data) bytes (or a read to the end) return exactly data
\* and leave the position at len(data)
C1_RoundTrip ==
    pc = "done" =>
        /\ last.status = "ok"
        /\ out = data
        /\ Position = Len(data)

\* the round trip of data longer than the writer's buffer through a
\* FileStream, read back to the end
C1_Witness ==
    /\ pc = "done" /\ backend = "file" /\ last.op = "read_to_end"
    /\ Len(data) > BufCap
    /\ fs.file = data

----------------------------------------------------------------------------
(* C7: the backends behave identically *)

\* C7: the same calls on an empty MemoryStream and on a FileStream over an
\* empty file (or on a SliceStream and the MemoryStream of the same bytes)
\* return the same counts and bytes and leave the same position() and len()
C7_BackendsAgree ==
    /\ last.a = last.b
    /\ backend = "memfile" =>
         /\ MemoryStream_position(mem) = FileStream_position(fs)
         /\ MemoryStream_len(mem) = FileStream_len(fs)
    /\ backend = "slicemem" =>
         /\ SliceStream_position(slice) = MemoryStream_position(mem)
         /\ SliceStream_len(slice) = MemoryStream_len(mem)

----------------------------------------------------------------------------
(* C11: seek *)

\* the bytes the constructed stream stores (for a FileStream, the file once
\* the writer is flushed)
Stored ==
    CASE backend = "slice" -> slice.buffer
      [] backend = "memory" -> mem.buffer
      [] OTHER -> FileView(fs)

\* the bytes stored before the last call
PreStored ==
    IF backend = "file" THEN FileView(last.pre) ELSE last.pre.buffer

\* a successful seek(to) returns to, sets position() to it and changes
\* neither len() nor a stored byte
SeekSetsPosition ==
    (last.op = "seek" /\ last.status = "ok") =>
        /\ last.ret = last.arg
        /\ Position = last.arg
        /\ Length = PreLength
        /\ Stored = PreStored

\* a read right after a seek to a position >= len() returns 0 bytes
ReadAfterSeekToEnd ==
    (last.op = "read" /\ last.before = "seek"
        /\ last.pre.position >= PreLength) => last.ret = 0

\* C11: every successful seek(to) returns to and makes position() == to, for
\* to == len and to > len too, without changing len() or a stored byte, and
\* a read right after a seek to a position >= len() returns 0 bytes
C11_SeekSetsPosition == SeekSetsPosition /\ ReadAfterSeekToEnd

----------------------------------------------------------------------------
(* C12: partial overwrite *)

\* C12: a MemoryStream or FileStream write of k bytes at position p with
\* p + k <= len() changes exactly the bytes [p, p + k): they become the
\* bytes written, every other byte and the number of bytes stay
C12_PartialOverwrite ==
    (backend \in {"memory", "file"} /\ last.op = "write" /\ last.status = "ok"
        /\ last.pre.position + Len(last.bytes) <= PreLength) =>
        LET p == last.pre.position
            k == Len(last.bytes)
        IN  /\ Len(Stored) = Len(PreStored)
            /\ \A i \in 1..Len(Stored) :
                 Stored[i] = IF i > p /\ i <= p + k
                             THEN last.bytes[i - p]
                             ELSE PreStored[i]

----------------------------------------------------------------------------
(* C13: the constructors of FileStream *)

Constructors == {"new_read", "new_write"}

\* C13: new_read gives a stream in ReadMode and new_write one in WriteMode,
\* both at position 0 with len() the size of the file as it was found and
\* the file's bytes kept; a read as the first call returns the file's first
\* bytes and a write as the first call is accepted, whichever constructor
\* was used
C13_Constructors ==
    /\ (backend = "file" /\ last.op \in Constructors) =>
         /\ fs.mode = IF last.op = "new_read" THEN "Read" ELSE "Write"
         /\ FileStream_position(fs) = 0
         /\ FileStream_len(fs) = Len(last.bytes)
         /\ fs.file = last.bytes
    /\ (backend = "file" /\ last.before \in Constructors /\ last.op = "read") =>
         /\ last.status = "ok"
         /\ last.got = Take(last.pre.file, last.arg)
         /\ fs.file = last.pre.file
    /\ (backend = "file" /\ last.before \in Constructors /\ last.op = "write") =>
         /\ last.status = "ok"
         /\ last.ret = Len(last.bytes)
         /\ Take(FileView(fs), Len(last.bytes)) = last.bytes

\* the bytes a file already held, read back as the first call on a stream
\* made by new_write
C13_Witness ==
    /\ backend = "file" /\ last.before = "new_write" /\ last.op = "read"
    /\ Len(last.pre.file) = MaxInit
    /\ last.got = last.pre.file

----------------------------------------------------------------------------
(* C16: the mode of FileStream *)

\* C16: a FileStream holds exactly one of a reader and a writer; after a
\* successful read it is in ReadMode, after a successful write in
\* WriteMode, and seek and flush leave the mode as it was
C16_ModeFollowsLastDataOp ==
    backend = "file" =>
        /\ fs.mode \in {"Read", "Write"}
        /\ fs.mode = "Read" => fs.wbuf = <<>>
        /\ fs.mode = "Write" => fs.rbuf = <<>>
        /\ (last.op = "read" /\ last.status = "ok") => fs.mode = "Read"
        /\ (last.op = "write" /\ last.status = "ok") => fs.mode = "Write"
        /\ last.op \in {"seek", "flush"} => fs.mode = last.pre.mode

\* a flush of a writer that held bytes, which stays a writer
C16_Witness ==
    /\ backend = "file" /\ last.op = "flush"
    /\ last.pre.mode = "Write" /\ last.pre.wbuf # <<>>
    /\ fs.mode = "Write"

----------------------------------------------------------------------------
(* C17: flush *)

\* a flush in WriteMode empties the writer into the file at the file's
\* offset and changes nothing else
FlushEmptiesWriter ==
    (backend = "file" /\ last.op = "flush" /\ last.pre.mode = "Write") =>
        /\ last.status = "ok"
        /\ fs.wbuf = <<>>
        /\ fs.file = FileView(last.pre)
        /\ fs.mode = last.pre.mode
        /\ fs.position = last.pre.position
        /\ fs.len = last.pre.len

\* the bytes the writer held were accepted at the stream offsets that end at
\* position(); after the flush the file holds them there
FlushedAtWrittenOffset ==
    (backend = "file" /\ last.op = "flush" /\ last.pre.mode = "Write") =>
        LET k == Len(last.pre.wbuf)
            from == last.pre.position - k
        IN  \A i \in 1..k :
              /\ from + i >= 1
              /\ from + i <= Len(fs.file)
              /\ fs.file[from + i] = last.pre.wbuf[i]

\* a flush in ReadMode and a flush of a MemoryStream succeed and change
\* nothing
FlushChangesNothing ==
    /\ (backend = "file" /\ last.op = "flush" /\ last.pre.mode = "Read") =>
         last.status = "ok" /\ fs = last.pre
    /\ (backend = "memory" /\ last.op = "flush") =>
         last.status = "ok" /\ mem = last.pre

\* C17: after a flush in WriteMode no written byte is buffered and the file
\* holds every byte accepted by the writes at the offset it was written to;
\* a flush in ReadMode or of a MemoryStream succeeds and changes nothing
C17_FlushPostcondition ==
    FlushEmptiesWriter /\ FlushedAtWrittenOffset /\ FlushChangesNothing

----------------------------------------------------------------------------
(* C18: growth of the MemoryStream buffer *)

\* C18: no call shortens the buffer of a MemoryStream; seek, read and flush
\* leave its bytes as they were; a write of n bytes at a position p <= len
\* grows it by max(0, p + n - len) bytes
C18_BufferGrowsOnlyByWrites ==
    backend = "memory" =>
        LET p == last.pre.position
            L == Len(last.pre.buffer)
        IN  /\ Len(mem.buffer) >= L
            /\ last.op \in {"seek", "read", "flush"} =>
                 mem.buffer = last.pre.buffer
            /\ (last.op = "write" /\ p <= L) =>
                 /\ last.status = "ok"
                 /\ Len(mem.buffer) - L = Max(0, p + last.arg - L)

\* a write that starts inside the buffer and ends past it
C18_Witness ==
    /\ backend = "memory" /\ last.op = "write"
    /\ last.pre.position > 0
    /\ last.pre.position < Len(last.pre.buffer)
    /\ last.pre.position + last.arg > Len(last.pre.buffer)

----------------------------------------------------------------------------
(* C19: a seek in WriteMode and the writes still buffered *)

\* C19: after write(a) at position p in WriteMode, seek(q), write(b) and a
\* flush, the file holds b at [q, q + len(b)) and a at [p, p + len(a))
\* (where b did not overwrite it)
C19_SeekKeepsPendingWrites ==
    pc = "done" =>
        /\ \A i \in 1..Len(out.b) :
             /\ out.q + i <= Len(fs.file)
             /\ fs.file[out.q + i] = out.b[i]
        /\ \A i \in 1..Len(out.a) :
             (out.p + i <= out.q \/ out.p + i > out.q + Len(out.b)) =>
                 /\ out.p + i <= Len(fs.file)
                 /\ fs.file[out.p + i] = out.a[i]

----------------------------------------------------------------------------
(* C20: failed calls of FileStream *)

Failed == last.status \in {"err_flush", "err_seek", "err_read", "err_write"}

\* C20: a seek, read or write of a FileStream that returns an error leaves
\* position() and len() as they were; a flush that fails in the switch from
\* WriteMode to ReadMode leaves the stream in WriteMode with the bytes it
\* had accepted in the file or still in the writer
C20_FailedCallKeepsCursor ==
    (backend = "file" /\ Failed) =>
        /\ FileStream_position(fs) = FileStream_position(last.pre)
        /\ FileStream_len(fs) = FileStream_len(last.pre)
        /\ (last.op = "read" /\ last.status = "err_flush") =>
             /\ fs.mode = "Write"
             /\ fs.wbuf # <<>>
             /\ FileView(fs) = FileView(last.pre)

\* a read in WriteMode whose flush failed after a part of the buffer had
\* reached the file
C20_Witness ==
    /\ backend = "file" /\ last.op = "read" /\ last.status = "err_flush"
    /\ last.pre.position > 0
    /\ fs.file # last.pre.file

----------------------------------------------------------------------------
(* C14: no end-of-stream error from read *)

\* C14: a read never fails with the unexpected-end-of-stream error; with a
\* buffer larger than what is left after the position it returns the bytes
\* that are left
C14_ReadNeverEof ==
    last.op = "read" =>
        /\ last.status # "eof"
        /\ backend = "binary_rw" =>
             last.ret = Min(last.arg,
                            Max(0, Len(last.pre.file) - last.pre.cursor))

----------------------------------------------------------------------------
(* C15: the clones of FileCloneable *)

\* C15: a seek, read or write through one clone of a FileCloneable leaves
\* the offset of every other clone's next read or write where it was
C15_IndependentCursors ==
    backend = "cloneable" =>
        \A c \in Clones : c # last.clone => Offset(fs, c) = last.offsets[c]

=============================================================================
